---------------------------- MODULE Spec2Model ----------------------------
(***************************************************************************)
(* A model of dash_plate's Plate class (src/src/dash_plate/plot.py): the   *)
(* constructors Plate.__init__, Plate.from_dict and Plate.from_dataframe,  *)
(* and the layout engine Plate._plate_figure reached through Plate.plot.   *)
(*                                                                         *)
(* Python values are tagged records [t, n, s]: t is the type ("none",      *)
(* "int", "float", "str"), n the number (a float is held in tenths, so     *)
(* 3.5 is n = 35) and s the text of a str, a sequence of one-character     *)
(* strings.  An argument that may be None, a str or a list is a record     *)
(* [t, s, l].  An exception is a result whose status names it.             *)
(***************************************************************************)
EXTENDS Integers, Sequences, FiniteSets, TLC

VARIABLES
    pc,            \* "start": no Plate yet; "new": a Plate exists; "plotted":
                   \* plot() has returned or raised; "raised": the adapter raised
    n_rows,        \* Plate.n_rows
    n_columns,     \* Plate.n_columns
    values,        \* Plate.values, the caller's object
    colors,        \* Plate.colors, the caller's object
    overlay_text,  \* Plate.overlay_text, the caller's object
    marker,        \* the caller's marker dict passed to plot(marker=...)
    marker0,       \* the caller's marker dict as it was before the first call
    showscale,     \* the showscale keyword passed to plot
    well_dict,     \* the table or mapping handed to from_dict / from_dataframe
    well,          \* the well index whose hover label was handed to from_dict, or -1
    op,            \* the constructor that made the Plate, "none" before any
    result         \* what the last call returned or raised

vars == <<pc, n_rows, n_columns, values, colors, overlay_text, marker,
          marker0, showscale, well_dict, well, op, result>>

----------------------------------------------------------------------------
(* Bounds of the model.                                                    *)

\* the grids checked are those with n_rows * n_columns <= MaxWells
MaxWells == 6
\* the grids of the well-name round trip have at most MaxNameRows rows
MaxNameRows == 9
\* ... and at most MaxNameCols columns
MaxNameCols == 11
\* a mapping or table handed to the adapters has at most MaxEntries entries
MaxEntries == 2

----------------------------------------------------------------------------
(* Python values.                                                          *)

PyNone == [t |-> "none", n |-> 0, s |-> <<>>]
PyInt(k) == [t |-> "int", n |-> k, s |-> <<>>]
PyFloat(tenths) == [t |-> "float", n |-> tenths, s |-> <<>>]
PyStr(chars) == [t |-> "str", n |-> 0, s |-> chars]

NoneArg == [t |-> "none", s |-> <<>>, l |-> <<>>]
StrArg(chars) == [t |-> "str", s |-> chars, l |-> <<>>]
ListArg(lst) == [t |-> "list", s |-> <<>>, l |-> lst]

Min(a, b) == IF a < b THEN a ELSE b
Max(a, b) == IF a > b THEN a ELSE b

Digits == <<"0", "1", "2", "3", "4", "5", "6", "7", "8", "9">>

\* str(k) of a Python int
RECURSIVE IntToStr(_)
IntToStr(k) ==
    IF k < 0 THEN <<"-">> \o IntToStr(0 - k)
    ELSE IF k < 10 THEN <<Digits[k + 1]>>
    ELSE IntToStr(k \div 10) \o <<Digits[(k % 10) + 1]>>

\* str(v), which is also what an f-string's {v} puts
Str(v) ==
    CASE v.t = "none" -> <<"N", "o", "n", "e">>
      [] v.t = "int" -> IntToStr(v.n)
      [] v.t = "float" -> IntToStr(v.n \div 10) \o <<".">> \o <<Digits[(v.n % 10) + 1]>>
      [] OTHER -> v.s

\* [None] * k
RECURSIVE Nones(_)
Nones(k) == IF k <= 0 THEN <<>> ELSE <<PyNone>> \o Nones(k - 1)

\* len(x) of a str or a list
PyLen(arg) == IF arg.t = "str" THEN Len(arg.s) ELSE Len(arg.l)

----------------------------------------------------------------------------
(* Plate._plate_figure                                                     *)

TRANSPARENT == <<"r", "g", "b", "a", "(", "0", ",", "0", ",", "0", ",", "0", ")">>
BR == <<"<", "b", "r", ">">>
VALUES == <<"v", "a", "l", "u", "e", "s">>

\* the characters chr(65) .. chr(90); no grid of the model has more rows
AsciiFromA ==
    <<"A", "B", "C", "D", "E", "F", "G", "H", "I", "J", "K", "L", "M",
      "N", "O", "P", "Q", "R", "S", "T", "U", "V", "W", "X", "Y", "Z">>

\* chr(ord('A') + i)
row_label(i) == AsciiFromA[i + 1]

\* f"{row}{col}" of the well at row i, column index j
well_label(i, j) == <<row_label(i)>> \o IntToStr(j + 1)

\* pad_or_check padding on the left
pad_or_check_left(lst, n_wells) ==
    IF lst.t = "none" THEN [err |-> "", l |-> Nones(n_wells)]
    ELSE IF PyLen(lst) > n_wells THEN [err |-> "ValueError", l |-> <<>>]
    ELSE IF lst.t = "str" THEN [err |-> "TypeError", l |-> <<>>]
    ELSE [err |-> "", l |-> Nones(n_wells - Len(lst.l)) \o lst.l]

\* pad_or_check: [err, l], err "" when it returns the list l
pad_or_check(lst, n_wells) ==
    IF lst.t = "none" THEN [err |-> "", l |-> Nones(n_wells)]
    ELSE IF PyLen(lst) > n_wells THEN [err |-> "ValueError", l |-> <<>>]
    ELSE IF lst.t = "str" THEN [err |-> "TypeError", l |-> <<>>]
    ELSE [err |-> "", l |-> lst.l \o Nones(n_wells - Len(lst.l))]

\* resolve_colors with any() for all()
resolve_colors_any(using_custom_colors, padded_colors, padded_values) ==
    IF using_custom_colors
    THEN IF \E k \in 1..Len(padded_colors) : padded_colors[k].t \in {"str", "none"}
         THEN [k \in 1..Len(padded_colors) |->
                  IF padded_colors[k].t = "none" THEN PyStr(TRANSPARENT)
                  ELSE padded_colors[k]]
         ELSE padded_colors
    ELSE [k \in 1..Len(padded_values) |->
             IF padded_values[k].t = "none" THEN PyInt(0) ELSE padded_values[k]]

\* resolve_colors with the values taken as the colors, nulls kept
resolve_colors_no_fallback(using_custom_colors, padded_colors, padded_values) ==
    IF using_custom_colors
    THEN IF \A k \in 1..Len(padded_colors) : padded_colors[k].t \in {"str", "none"}
         THEN [k \in 1..Len(padded_colors) |->
                  IF padded_colors[k].t = "none" THEN PyStr(TRANSPARENT)
                  ELSE padded_colors[k]]
         ELSE padded_colors
    ELSE padded_values

\* the colors of the markers, from the padded colors or the padded values
resolve_colors(using_custom_colors, padded_colors, padded_values) ==
    IF using_custom_colors
    THEN IF \A k \in 1..Len(padded_colors) : padded_colors[k].t \in {"str", "none"}
         THEN [k \in 1..Len(padded_colors) |->
                  IF padded_colors[k].t = "none" THEN PyStr(TRANSPARENT)
                  ELSE padded_colors[k]]
         ELSE padded_colors
    ELSE [k \in 1..Len(padded_values) |->
             IF padded_values[k].t = "none" THEN PyInt(0) ELSE padded_values[k]]

\* hover_label testing the value's truth ("if val") for "val is not None"
hover_label_truthy(idx, padded_values, ncols) ==
    LET label == well_label(idx \div ncols, idx % ncols)
        val == padded_values[idx + 1]
    IN  IF val.t # "none" /\ ~(val.t \in {"int", "float"} /\ val.n = 0)
        THEN label \o BR \o Str(val) ELSE label

\* hovertext[idx] for the 0-based well index idx
hover_label(idx, padded_values, ncols) ==
    LET label == well_label(idx \div ncols, idx % ncols)
        val == padded_values[idx + 1]
    IN  IF val.t # "none" THEN label \o BR \o Str(val) ELSE label

\* a marker dict: keys holds the keys it has, line_keys those of marker["line"]
NoMarker ==
    [none |-> TRUE, keys |-> {}, size |-> 0, symbol |-> "", color |-> <<>>,
     line_keys |-> {}, line_color |-> "", line_width |-> 0,
     showscale |-> FALSE, colorscale |-> "", colorbar |-> ""]

\* the marker built when the caller gives none
default_marker(marker_size, clrs, using_custom_colors, show) ==
    [none |-> FALSE,
     keys |-> {"size", "symbol", "color", "line", "showscale"}
                \cup (IF using_custom_colors THEN {} ELSE {"colorscale"})
                \cup (IF ~using_custom_colors /\ show THEN {"colorbar"} ELSE {}),
     size |-> marker_size, symbol |-> "circle", color |-> clrs,
     line_keys |-> {"color", "width"}, line_color |-> "black", line_width |-> 1,
     showscale |-> IF using_custom_colors THEN FALSE ELSE show,
     colorscale |-> IF using_custom_colors THEN "" ELSE "Blues",
     colorbar |-> IF ~using_custom_colors /\ show THEN "Value" ELSE ""]

\* marker.copy() followed by the three setdefault calls: the dict handed on
override_marker(m, marker_size, clrs) ==
    [m EXCEPT
       !.keys = m.keys \cup {"size", "line", "color"},
       !.size = IF "size" \in m.keys THEN m.size ELSE marker_size,
       !.line_keys = (IF "line" \in m.keys THEN m.line_keys ELSE {}) \cup {"width"},
       !.line_width = IF "line" \in m.keys /\ "width" \in m.line_keys
                      THEN m.line_width ELSE 1,
       !.color = IF "color" \in m.keys THEN m.color ELSE clrs]

\* the caller's own marker dict after those calls: copy() is shallow, so
\* marker["line"] of the copy is the caller's dict and takes the width
caller_marker_after(m) ==
    IF "line" \in m.keys /\ "width" \notin m.line_keys
    THEN [m EXCEPT !.line_keys = m.line_keys \cup {"width"}, !.line_width = 1]
    ELSE m

Raised(kind) ==
    [status |-> kind, x10 |-> <<>>, y |-> <<>>, hovertext |-> <<>>,
     marker |-> NoMarker, values |-> <<>>, colors |-> <<>>,
     overlay_text |-> <<>>, text |-> <<>>, text_size |-> 0]

\* the text of the text trace
text_layer(ov, padded_values) ==
    IF ov.t = "str" /\ ov.s = VALUES
    THEN [k \in 1..Len(padded_values) |->
             IF padded_values[k].t # "none" THEN PyStr(Str(padded_values[k]))
             ELSE PyStr(<<>>)]
    ELSE ov.l

\* _plate_figure: [ret, caller_marker], the figure returned (or the exception
\* raised) and the caller's marker dict afterwards.  x is kept in tenths.
plate_figure(vals, clrs, ov, nrows, ncols, m, show) ==
    LET n_wells == nrows * ncols
        pv == pad_or_check(vals, n_wells)
        po == pad_or_check(ov, n_wells)
        using_custom_colors == clrs.t # "none"
        pcl == IF using_custom_colors THEN pad_or_check(clrs, n_wells)
               ELSE [err |-> "", l |-> <<>>]
    IN  IF pv.err # "" THEN [ret |-> Raised(pv.err), caller_marker |-> m]
        ELSE IF po.err # "" THEN [ret |-> Raised(po.err), caller_marker |-> m]
        ELSE IF pcl.err # "" THEN [ret |-> Raised(pcl.err), caller_marker |-> m]
        ELSE
        LET rc == resolve_colors(using_custom_colors, pcl.l, pv.l)
            marker_size == Min(60, 500 \div Max(nrows, ncols))
            font_size == Min(14, 160 \div Max(nrows, ncols))
            overlay == ListArg(po.l)
        IN  [ret |->
               [status |-> "ok",
                x10 |-> [k \in 1..n_wells |-> 10 * (((k - 1) % ncols) + 1) + 4],
                y |-> [k \in 1..n_wells |-> nrows - ((k - 1) \div ncols)],
                hovertext |-> [k \in 1..n_wells |-> hover_label(k - 1, pv.l, ncols)],
                marker |-> IF m.none
                           THEN default_marker(marker_size, rc, using_custom_colors, show)
                           ELSE override_marker(m, marker_size, rc),
                values |-> pv.l,
                colors |-> rc,
                overlay_text |-> po.l,
                text |-> text_layer(overlay, pv.l),
                text_size |-> font_size - 2],
             caller_marker |-> IF m.none THEN m ELSE caller_marker_after(m)]

----------------------------------------------------------------------------
(* Plate.plot                                                              *)

NoResult == Raised("none")

\* Plate.plot(marker=marker, showscale=showscale)
plot ==
    /\ pc \in {"new", "plotted"}
    /\ LET r == plate_figure(values, colors, overlay_text, n_rows, n_columns,
                             marker, showscale)
       IN  /\ result' = r.ret
           /\ marker' = r.caller_marker
    /\ pc' = "plotted"
    /\ UNCHANGED <<n_rows, n_columns, values, colors, overlay_text, marker0,
                   showscale, well_dict, well, op>>

----------------------------------------------------------------------------
(* Plate.from_dict and Plate.from_dataframe                                *)

UpperAH == <<"A", "B", "C", "D", "E", "F", "G", "H">>
LowerAH == <<"a", "b", "c", "d", "e", "f", "g", "h">>

IsDigit(c) == \E k \in 1..10 : Digits[k] = c
DigitVal(c) == (CHOOSE k \in 1..10 : Digits[k] = c) - 1

\* int(chars) of a string of digits
RECURSIVE ParseInt(_)
ParseInt(chars) ==
    IF chars = <<>> THEN 0
    ELSE 10 * ParseInt(SubSeq(chars, 1, Len(chars) - 1)) + DigitVal(chars[Len(chars)])

\* the length of the longest prefix of chars whose characters all satisfy Ok
RECURSIVE PrefixLen(_, _)
PrefixLen(chars, OkSet) ==
    IF chars = <<>> \/ Head(chars) \notin OkSet THEN 0
    ELSE 1 + PrefixLen(Tail(chars), OkSet)

DigitSet == {Digits[k] : k \in 1..10}

\* row.upper() of a matched row letter
upper(c) ==
    IF \E k \in 1..8 : LowerAH[k] = c
    THEN UpperAH[CHOOSE k \in 1..8 : LowerAH[k] = c]
    ELSE c

\* ord(c) - ord('A') of an upper-case letter
ord_from_A(c) == (CHOOSE k \in 1..Len(AsciiFromA) : AsciiFromA[k] = c) - 1

\* normalize_well: re.match(r"([A-Ha-h])0*(\d+)", w), then (row.upper(),
\* int(col)).  0* takes the leading zeros and \d+ the digits after them; when
\* every digit is a zero, 0* gives the last one back to \d+.
normalize_well(w) ==
    IF w = <<>> \/ ~(\E k \in 1..8 : UpperAH[k] = w[1] \/ LowerAH[k] = w[1])
    THEN [ok |-> FALSE, row |-> "", col |-> 0]
    ELSE LET rest == Tail(w)
             d == PrefixLen(rest, DigitSet)
             z == PrefixLen(rest, {"0"})
         IN  IF d = 0 THEN [ok |-> FALSE, row |-> "", col |-> 0]
             ELSE [ok |-> TRUE, row |-> upper(w[1]),
                   col |-> ParseInt(IF z < d THEN SubSeq(rest, z + 1, d)
                                    ELSE <<"0">>)]

\* lst[idx] = v of a Python list: a negative idx counts from the end
list_assign(lst, idx, v) ==
    IF idx >= 0 /\ idx < Len(lst) THEN [ok |-> TRUE, l |-> [lst EXCEPT ![idx + 1] = v]]
    ELSE IF idx < 0 /\ idx >= 0 - Len(lst)
    THEN [ok |-> TRUE, l |-> [lst EXCEPT ![Len(lst) + idx + 1] = v]]
    ELSE [ok |-> FALSE, l |-> lst]

\* one pass of from_dict's loop, on the lists acc
from_dict_entry(acc, entry, nrows, ncols) ==
    LET nw == normalize_well(entry.well)
    IN  IF ~nw.ok THEN [acc EXCEPT !.err = "ValueError"]
        ELSE LET row_idx == ord_from_A(nw.row)
                 col_idx == nw.col - 1
                 idx == row_idx * ncols + col_idx
             IN  IF row_idx >= nrows \/ col_idx >= ncols THEN acc
                 ELSE IF ~list_assign(acc.values, idx, entry.value).ok
                 THEN [acc EXCEPT !.err = "IndexError"]
                 ELSE [acc EXCEPT
                         !.values = list_assign(acc.values, idx, entry.value).l,
                         !.colors = list_assign(acc.colors, idx, entry.color).l,
                         !.text = list_assign(acc.text, idx, entry.text).l]

RECURSIVE from_dict_loop(_, _, _, _)
from_dict_loop(acc, items, nrows, ncols) ==
    IF items = <<>> \/ acc.err # "" THEN acc
    ELSE from_dict_loop(from_dict_entry(acc, Head(items), nrows, ncols),
                        Tail(items), nrows, ncols)

\* the keyword parameters from_dict takes
from_dict_keywords == {"well_dict", "n_rows", "n_columns"}

\* Plate.from_dict(well_dict, n_rows=nrows, n_columns=ncols, and the keywords
\* kw): [err, values, colors, text], the lists of the Plate it returns
from_dict(items, nrows, ncols, kw) ==
    IF ~(kw \subseteq from_dict_keywords)
    THEN [err |-> "TypeError", values |-> <<>>, colors |-> <<>>, text |-> <<>>]
    ELSE from_dict_loop([err |-> "", values |-> Nones(nrows * ncols),
                         colors |-> Nones(nrows * ncols),
                         text |-> Nones(nrows * ncols)],
                        items, nrows, ncols)

\* the dict comprehension of from_dataframe: a later row of the same well
\* replaces the record and keeps the key's place
RECURSIVE record_dict(_)
record_dict(rows) ==
    IF rows = <<>> THEN <<>>
    ELSE LET before == record_dict(SubSeq(rows, 1, Len(rows) - 1))
             last == rows[Len(rows)]
         IN  IF \E k \in 1..Len(before) : before[k].well = last.well
             THEN [k \in 1..Len(before) |->
                      IF before[k].well = last.well THEN last ELSE before[k]]
             ELSE Append(before, last)

\* Plate.from_dataframe(df, n_rows=nrows, n_columns=ncols)
from_dataframe(rows, nrows, ncols) ==
    from_dict(record_dict(rows), nrows, ncols, {"n_rows", "n_columns", "fill_direction"})

\* the state a constructor call leaves: the new Plate, or the exception
Constructed(r, name) ==
    /\ op' = name
    /\ IF r.err = ""
       THEN /\ pc' = "new"
            /\ values' = ListArg(r.values)
            /\ colors' = ListArg(r.colors)
            /\ overlay_text' = ListArg(r.text)
            /\ result' = NoResult
       ELSE /\ pc' = "raised"
            /\ result' = Raised(r.err)
            /\ UNCHANGED <<values, colors, overlay_text>>
    /\ UNCHANGED <<n_rows, n_columns, marker, marker0, showscale, well_dict, well>>

DistinctKeys(items) ==
    \A j, k \in 1..Len(items) : items[j].well = items[k].well => j = k

\* Plate.from_dict(well_dict, n_rows, n_columns), well_dict a mapping
from_dict_call ==
    /\ pc = "start"
    /\ DistinctKeys(well_dict)
    /\ Constructed(from_dict(well_dict, n_rows, n_columns, {"n_rows", "n_columns"}),
                   "from_dict")

\* Plate.from_dataframe(well_dict, n_rows=n_rows, n_columns=n_columns),
\* well_dict the rows of a table
from_dataframe_call ==
    /\ pc = "start"
    /\ Constructed(from_dataframe(well_dict, n_rows, n_columns), "from_dataframe")

\* the caller takes the hover label of a well of the figure as the one key
\* of a mapping for from_dict
pick_label ==
    /\ pc = "plotted"
    /\ op = "__init__"
    /\ result.status = "ok"
    /\ well = -1
    /\ \E i \in 0..(n_rows * n_columns - 1) :
         /\ well' = i
         /\ well_dict' = <<[well |-> result.hovertext[i + 1], value |-> PyInt(5),
                            color |-> PyNone, text |-> PyNone]>>
    /\ pc' = "start"
    /\ UNCHANGED <<n_rows, n_columns, values, colors, overlay_text, marker,
                   marker0, showscale, op, result>>

----------------------------------------------------------------------------
(* The inputs checked and the specifications.                              *)

RED == <<"r", "e", "d">>
GREEN == <<"g", "r", "e", "e", "n">>

\* the grids (n_rows, n_columns) of at most MaxWells wells
Grids == {g \in (1..MaxWells) \X (1..MaxWells) : g[1] * g[2] <= MaxWells}

\* the lists over Dom of at most k entries
Lists(Dom, k) == UNION {[1..m -> Dom] : m \in 0..k}

\* an argument that is None or a list over Dom of at most k entries
ListArgs(Dom, k) == {NoneArg} \cup {ListArg(l) : l \in Lists(Dom, k)}

ValueDomain == {PyNone, PyInt(0), PyFloat(35)}
ColorDomain == {PyNone, PyStr(RED), PyInt(1)}
TextDomain == {PyNone, PyStr(<<"x">>)}

\* the marker dicts a caller passes: any of the keys size, line and color,
\* and marker["line"] with any of the keys color and width
Markers ==
    {NoMarker} \cup
    {[none |-> FALSE, keys |-> K,
      size |-> IF "size" \in K THEN 30 ELSE 0,
      symbol |-> "",
      color |-> IF "color" \in K THEN <<PyStr(GREEN)>> ELSE <<>>,
      line_keys |-> IF "line" \in K THEN LK ELSE {},
      line_color |-> IF "line" \in K /\ "color" \in LK THEN "red" ELSE "",
      line_width |-> IF "line" \in K /\ "width" \in LK THEN 3 ELSE 0,
      showscale |-> FALSE, colorscale |-> "", colorbar |-> ""] :
        K \in SUBSET {"size", "line", "color"}, LK \in SUBSET {"color", "width"}}

\* a Plate made by Plate.__init__, no call made on it yet
InitPlate ==
    /\ pc = "new"
    /\ op = "__init__"
    /\ marker0 = marker
    /\ well_dict = <<>>
    /\ well = -1
    /\ result = NoResult

\* the defaults of n_rows and n_columns
DefaultRows == 8
DefaultColumns == 12

\* the default plate with values [1.0, None, 3.5] and nothing else
InitScenario ==
    /\ n_rows = DefaultRows
    /\ n_columns = DefaultColumns
    /\ values = ListArg(<<PyFloat(10), PyNone, PyFloat(35)>>)
    /\ colors = NoneArg
    /\ overlay_text = NoneArg
    /\ marker = NoMarker
    /\ showscale = FALSE
    /\ InitPlate

\* plates whose values run over every list up to one entry too long
InitValues ==
    /\ \E g \in Grids :
         /\ n_rows = g[1]
         /\ n_columns = g[2]
         /\ values \in ListArgs(ValueDomain, g[1] * g[2] + 1)
    /\ colors \in {NoneArg, ListArg(<<PyStr(RED)>>)}
    /\ overlay_text \in {NoneArg, StrArg(VALUES), ListArg(<<PyStr(<<"x">>)>>)}
    /\ marker = NoMarker
    /\ showscale = FALSE
    /\ InitPlate

\* plates whose colors run over every list up to one entry too long
InitColors ==
    /\ \E g \in Grids :
         /\ n_rows = g[1]
         /\ n_columns = g[2]
         /\ colors \in ListArgs(ColorDomain, g[1] * g[2] + 1)
    /\ values \in {NoneArg, ListArg(<<PyInt(0), PyNone, PyFloat(35)>>)}
    /\ overlay_text \in {NoneArg, StrArg(VALUES)}
    /\ marker \in {m \in Markers : m.keys \subseteq {"color"}}
    /\ showscale = FALSE
    /\ InitPlate

\* plates plotted with every marker dict
InitMarker ==
    /\ \E g \in Grids :
         /\ n_rows = g[1]
         /\ n_columns = g[2]
         /\ values \in {NoneArg, ListArg(<<PyInt(0)>>),
                        ListArg(Nones(g[1] * g[2] + 1))}
    /\ colors \in {NoneArg, ListArg(<<PyStr(RED)>>)}
    /\ overlay_text \in {NoneArg, StrArg(VALUES)}
    /\ marker \in Markers
    /\ showscale \in BOOLEAN
    /\ InitPlate

WellNames ==
    {<<"A", "1">>, <<"a", "1">>, <<"A", "0", "1">>, <<"B", "2">>,
     <<"A", "0">>, <<"B", "0", "0">>, <<"C", "1">>, <<"A", "3">>,
     <<"b", "1", "0">>, <<"I", "1">>, <<"1", "A">>, <<"A">>}

Contents ==
    {[value |-> PyInt(5), color |-> PyNone, text |-> PyNone],
     [value |-> PyFloat(35), color |-> PyStr(GREEN), text |-> PyStr(<<"x">>)]}

Entries ==
    {[well |-> w, value |-> c.value, color |-> c.color, text |-> c.text] :
        w \in WellNames, c \in Contents}

\* a mapping or table of at most MaxEntries entries, not yet handed to an adapter
InitAdapter ==
    /\ pc = "start"
    /\ op = "none"
    /\ \E g \in Grids : n_rows = g[1] /\ n_columns = g[2]
    /\ well_dict \in Lists(Entries, MaxEntries)
    /\ values = NoneArg
    /\ colors = NoneArg
    /\ overlay_text = NoneArg
    /\ marker = NoMarker
    /\ marker0 = NoMarker
    /\ showscale = FALSE
    /\ well = -1
    /\ result = NoResult

\* a plate of no data, on a grid of up to MaxNameRows x MaxNameCols wells
InitName ==
    /\ n_rows \in 1..MaxNameRows
    /\ n_columns \in 1..MaxNameCols
    /\ values = NoneArg
    /\ colors = NoneArg
    /\ overlay_text = NoneArg
    /\ marker = NoMarker
    /\ showscale = FALSE
    /\ InitPlate

NextPlot == plot
NextAdapter == from_dict_call \/ from_dataframe_call \/ plot
NextName == plot \/ pick_label \/ from_dict_call

SpecValues == (InitValues \/ InitScenario) /\ [][NextPlot]_vars
SpecColors == InitColors /\ [][NextPlot]_vars
SpecMarker == InitMarker /\ [][NextPlot]_vars
SpecAdapter == InitAdapter /\ [][NextAdapter]_vars
SpecName == InitName /\ [][NextName]_vars

----------------------------------------------------------------------------
(* The properties.                                                         *)

n_wells == n_rows * n_columns

\* lst right-padded with None to n entries
RightPadded(lst, n) == [k \in 1..n |-> IF k <= Len(lst) THEN lst[k] ELSE PyNone]

\* the entry of well k (from 1) of a list argument, None where it has none
EntryOf(arg, k) == IF arg.t = "list" /\ k <= Len(arg.l) THEN arg.l[k] ELSE PyNone

\* an argument is longer than the grid has wells
TooLong(arg) == arg.t # "none" /\ PyLen(arg) > n_wells

\* C1: a call with values, colors or overlay_text longer than n_rows*n_columns
\* ends in ValueError, and a call whose arguments all fit never does.
C1_LengthError ==
    pc = "plotted" =>
        /\ (TooLong(values) \/ TooLong(colors) \/ TooLong(overlay_text))
              => result.status = "ValueError"
        /\ ~(TooLong(values) \/ TooLong(colors) \/ TooLong(overlay_text))
              => result.status # "ValueError"

\* C2: with overlay_text = "values" and values of at most n_rows*n_columns
\* entries the call succeeds, and the text of every well is str(value), or ""
\* where the value is null.
C2_OverlaySentinel ==
    (/\ pc = "plotted"
     /\ overlay_text = StrArg(VALUES)
     /\ ~TooLong(values) /\ ~TooLong(colors))
    => /\ result.status = "ok"
       /\ Len(result.text) = n_wells
       /\ \A k \in 1..n_wells :
            result.text[k] = IF EntryOf(values, k).t = "none" THEN PyStr(<<>>)
                             ELSE PyStr(Str(EntryOf(values, k)))

\* C6: a call leaves the caller's marker dict, its nested line dict included,
\* as it was, and calling again with the same arguments returns the same.
C6_SideEffectFree ==
    pc = "plotted" =>
        /\ marker = marker0
        /\ plate_figure(values, colors, overlay_text, n_rows, n_columns,
                        marker, showscale).ret = result

\* C7: a call with values of fewer than n_rows*n_columns entries returns what
\* the call with those values right-padded with nulls returns, and the
\* values, colors and overlay_text of a figure have n_rows*n_columns entries.
C7_PaddingLaw ==
    pc = "plotted" =>
        /\ (values.t = "list" /\ Len(values.l) < n_wells) =>
              result = plate_figure(ListArg(RightPadded(values.l, n_wells)), colors,
                                    overlay_text, n_rows, n_columns, marker0,
                                    showscale).ret
        /\ result.status = "ok" =>
              /\ Len(result.values) = n_wells
              /\ Len(result.colors) = n_wells
              /\ Len(result.overlay_text) = n_wells

\* a short list with a value in it was padded and plotted
C7_Witness ==
    /\ pc = "plotted"
    /\ result.status = "ok"
    /\ values.t = "list"
    /\ Len(values.l) > 0
    /\ Len(values.l) + 2 <= n_wells
    /\ values.l[Len(values.l)].t # "none"
    /\ result.values[n_wells] = PyNone

\* C8: with colors given, all of them strings or nulls, the color of a well
\* is "rgba(0,0,0,0)" where its entry is null or missing and its entry
\* otherwise; with a number among them, the padded colors are kept as they are.
C8_TransparentNull ==
    (pc = "plotted" /\ result.status = "ok" /\ colors.t = "list") =>
        /\ Len(result.colors) = n_wells
        /\ \A k \in 1..n_wells :
             result.colors[k] =
                IF /\ \A j \in 1..Len(colors.l) : colors.l[j].t \in {"str", "none"}
                   /\ EntryOf(colors, k).t = "none"
                THEN PyStr(TRANSPARENT)
                ELSE EntryOf(colors, k)
        /\ "color" \notin marker0.keys => result.marker.color = result.colors

\* the colors ["red", None] were padded and plotted: the null and the
\* padded wells are transparent, the string is kept
C8_Witness ==
    /\ pc = "plotted"
    /\ result.status = "ok"
    /\ colors = ListArg(<<PyStr(RED), PyNone>>)
    /\ n_wells > 2
    /\ result.colors[1] = PyStr(RED)
    /\ result.colors[2] = PyStr(TRANSPARENT)
    /\ result.colors[n_wells] = PyStr(TRANSPARENT)

\* C9: with colors omitted the color of a well is 0 where its value is null
\* or missing and its value otherwise; on the default plate the values
\* [1.0, None, 3.5] give the 96 colors [1.0, 0, 3.5, 0, 0, ...].
C9_ColorFallback ==
    (pc = "plotted" /\ result.status = "ok" /\ colors.t = "none") =>
        /\ Len(result.colors) = n_wells
        /\ \A k \in 1..n_wells :
             result.colors[k] = IF EntryOf(values, k).t = "none" THEN PyInt(0)
                                ELSE EntryOf(values, k)
        /\ result.marker.color = result.colors
        /\ (/\ n_rows = DefaultRows /\ n_columns = DefaultColumns
            /\ values = ListArg(<<PyFloat(10), PyNone, PyFloat(35)>>))
           => /\ Len(result.colors) = 96
              /\ result.colors[1] = PyFloat(10)
              /\ result.colors[3] = PyFloat(35)
              /\ \A k \in ((1..96) \ {1, 3}) : result.colors[k] = PyInt(0)

\* the default plate with [1.0, None, 3.5] was plotted
C9_Witness ==
    /\ pc = "plotted"
    /\ result.status = "ok"
    /\ colors.t = "none"
    /\ n_wells = 96
    /\ values = ListArg(<<PyFloat(10), PyNone, PyFloat(35)>>)
    /\ result.colors[2] = PyInt(0)

\* C10: a figure has one marker per well, in row-major order, and the hover
\* label of a well is its name (row letter, column number) where its value
\* is null, and name, "<br>", value otherwise.
C10_HoverLabels ==
    (pc = "plotted" /\ result.status = "ok") =>
        /\ Len(result.x10) = n_wells
        /\ Len(result.y) = n_wells
        /\ Len(result.hovertext) = n_wells
        /\ \A i \in 0..(n_rows - 1) : \A j \in 0..(n_columns - 1) :
             LET k == i * n_columns + j + 1
                 name == <<AsciiFromA[i + 1]>> \o IntToStr(j + 1)
             IN  /\ result.x10[k] = 10 * (j + 1) + 4
                 /\ result.y[k] = n_rows - i
                 /\ result.hovertext[k] =
                       IF EntryOf(values, k).t = "none" THEN name
                       ELSE name \o BR \o Str(EntryOf(values, k))

\* a figure with the label of a 0, of a null and of a missing value
C10_Witness ==
    /\ pc = "plotted"
    /\ result.status = "ok"
    /\ n_rows = 2
    /\ n_columns = 2
    /\ values = ListArg(<<PyInt(0), PyNone, PyFloat(35)>>)
    /\ result.hovertext = << <<"A", "1", "<", "b", "r", ">", "0">>, <<"A", "2">>,
                             <<"B", "1", "<", "b", "r", ">", "3", ".", "5">>,
                             <<"B", "2">> >>

\* the name w parses to a row or a column outside the grid
OutOfGrid(w) ==
    LET nw == normalize_well(w)
    IN  /\ nw.ok
        /\ \/ ord_from_A(nw.row) >= n_rows
           \/ nw.col > n_columns
           \/ nw.col < 1

\* items without its k-th entry
Without(items, k) == SubSeq(items, 1, k - 1) \o SubSeq(items, k + 1, Len(items))

\* what a from_dict call that returned r leaves
Returned(r) ==
    IF r.err # "" THEN pc = "raised" /\ result.status = r.err
    ELSE /\ pc # "raised"
         /\ values = ListArg(r.values)
         /\ colors = ListArg(r.colors)
         /\ overlay_text = ListArg(r.text)

\* C3: from_dict drops an entry whose well lies outside the grid (row index
\* >= n_rows, column > n_columns or column < 1): it raises nothing for it and
\* returns the Plate it returns without that entry.
C3_OutOfRangeDropped ==
    (op = "from_dict" /\ well = -1) =>
        \A k \in 1..Len(well_dict) :
            OutOfGrid(well_dict[k].well) =>
                /\ Returned(from_dict(Without(well_dict, k), n_rows, n_columns, {}))
                /\ (\A j \in 1..Len(well_dict) : normalize_well(well_dict[j].well).ok)
                      => pc # "raised"

\* C4: the name the engine gives well i, resolved by from_dict, is well i:
\* from_dict of {name: {"value": 5}} puts the 5 at index i and nothing else.
C4_NameRoundTrip ==
    (op = "from_dict" /\ well >= 0) =>
        /\ pc # "raised"
        /\ values = ListArg([k \in 1..n_wells |->
                               IF k = well + 1 THEN PyInt(5) ELSE PyNone])

\* C5: from_dataframe of a table with valid well names succeeds and makes the
\* Plate that from_dict makes of the mapping built from the table's rows.
C5_DataframeAsDict ==
    (/\ op = "from_dataframe"
     /\ \A j \in 1..Len(well_dict) : normalize_well(well_dict[j].well).ok)
    => /\ pc # "raised"
       /\ Returned(from_dict(record_dict(well_dict), n_rows, n_columns, {}))

=============================================================================
